---------------------------- MODULE Spec2Model ----------------------------
(***************************************************************************)
(* Model of the at:// URI engine of atproto-common (src/src/requests.ts):  *)
(* AtURI (constructor, getSerialization, parse, canParse, toString,        *)
(* softRef) and validateRecordKey.                                         *)
(*                                                                         *)
(* A JavaScript string is a sequence of one-character strings.  The values *)
(* undefined and null are the tuples <<"undefined">> and <<"null">>: they  *)
(* are no strings, since their only element is no single character.  An    *)
(* array is a sequence whose holes read as undefined.                      *)
(***************************************************************************)
EXTENDS Integers, Sequences, FiniteSets

VARIABLES
    pc,       \* position of the caller
    uri,      \* first argument of AtURI.parse / AtURI.canParse
    base,     \* second argument of AtURI.parse / AtURI.canParse
    ret,      \* outcome of AtURI.parse
    can,      \* outcome of AtURI.canParse
    args,     \* arguments of the AtURI constructor
    self,     \* the AtURI value at hand (this), or the constructor's outcome
    str,      \* outcome of toString()
    ref,      \* outcome of softRef()
    rkey,     \* argument of validateRecordKey
    matched   \* return value of validateRecordKey

vars == <<pc, uri, base, ret, can, args, self, str, ref, rkey, matched>>

---------------------------------------------------------------------------
(* JavaScript values *)

undefined == <<"undefined">>
null == <<"null">>

\* truthiness of a value of type string | undefined | null
Truthy(s) == s # undefined /\ s # null /\ s # <<>>

\* a ?? b
Nullish(a, b) == IF a = undefined \/ a = null THEN b ELSE a

\* a && b
AndAlso(a, b) == IF Truthy(a) THEN b ELSE a

\* arr[i], 0-based: reading past the end or a hole gives undefined
At(arr, i) == IF i < Len(arr) THEN arr[i + 1] ELSE undefined

\* arr[i] = v, 0-based: writing past the end leaves holes
ArraySet(arr, i, v) ==
    IF i < Len(arr)
    THEN [arr EXCEPT ![i + 1] = v]
    ELSE arr \o [k \in 1..(i - Len(arr)) |-> undefined] \o <<v>>

\* String.prototype.split with a one-character separator
RECURSIVE split(_, _)
split(s, sep) ==
    IF \A i \in 1..Len(s) : s[i] # sep
    THEN <<s>>
    ELSE LET i == CHOOSE i \in 1..Len(s) :
                      s[i] = sep /\ \A j \in 1..(i - 1) : s[j] # sep
         IN  <<SubSeq(s, 1, i - 1)>> \o split(SubSeq(s, i + 1, Len(s)), sep)

\* the filter callback (x) => x
NonEmpty(x) == Truthy(x)

\* Array.prototype.filter((x) => x)
filter(arr) == SelectSeq(arr, NonEmpty)

\* Array.prototype.join("")
RECURSIVE join(_)
join(arr) == IF arr = <<>> THEN <<>> ELSE Head(arr) \o join(Tail(arr))

---------------------------------------------------------------------------
(* Result values of @hotsocket/dhmo, and a raised exception *)

Ok(v) == [kind |-> "Ok", value |-> v]
Err(e) == [kind |-> "Err", error |-> e]
Throw(e) == [kind |-> "Throw", error |-> e]
None == [kind |-> "None"]

\* Result.okValue(): the value of an Ok, undefined for an Err
\* (requests.ts reads it as `uas.okValue()!` and `bas?.okValue()`)
okValue(r) == IF r.kind = "Ok" THEN r.value ELSE undefined

---------------------------------------------------------------------------
(* string literals of requests.ts *)

SLASH == "/"
AT == <<"a", "t", ":">>
AT_PREFIX == <<"a", "t", ":", "/", "/">>

ErrLowerCount == "Lower part count is greater than the maximum of 4"
ErrBadProtocol == "Bad protocol, must be 'at:'"
ErrRootedUpper == "part count > 4 in rooted upper"
ErrRelativeUpper == "too many parts in upper w/o authority"
ErrNoAuthorityForCollection == "collection w/o authority"
ErrNoCollectionForRkey == "rkey w/o collection"
ErrNoAuthority == "no authority"
TypeError == "TypeError"

---------------------------------------------------------------------------
(* class AtURI *)

\* an AtURI object: its three fields
AtURI(authority, collection, rk) ==
    [authority |-> authority, collection |-> collection, rkey |-> rk]

\* softRef(): { repo: this.authority, collection: this.authority!, rkey: this.rkey! }
softRef(this) ==
    [repo |-> this.authority, collection |-> this.authority, rkey |-> this.rkey]

\* lower taken with || : an empty base gives way to uri
lowerOfOr(u, b) == IF Truthy(b) THEN b ELSE u

\* const lower = base ?? uri
lowerOf(u, b) == Nullish(b, u)

\* const upper = base && uri
upperOf(u, b) == AndAlso(b, u)

\* x.split("/").filter((x) => x)
partsOf(x) == filter(split(x, SLASH))

\* overlay writing from index 1, over the authority
RECURSIVE overlayFromAuthority(_, _, _)
overlayFromAuthority(out_lowerParts, upperParts, i) ==
    IF i < Len(upperParts)
    THEN overlayFromAuthority(ArraySet(out_lowerParts, 1 + i, At(upperParts, i)),
                              upperParts, i + 1)
    ELSE out_lowerParts

\* for (let i = 0; i < upperParts.length; i++) out_lowerParts[2 + i] = upperParts[i]
RECURSIVE overlay(_, _, _)
overlay(out_lowerParts, upperParts, i) ==
    IF i < Len(upperParts)
    THEN overlay(ArraySet(out_lowerParts, 2 + i, At(upperParts, i)), upperParts, i + 1)
    ELSE out_lowerParts

\* mergeUpper without the early drop-out of a rooted upper
mergeUpperNoDropOut(out_lowerParts, upper) ==
    LET upperParts == partsOf(upper)
    IN  IF Len(upperParts) > 2
        THEN Err(ErrRelativeUpper)
        ELSE Ok(overlay(out_lowerParts, upperParts, 0))

\* mergeUpper letting a relative upper have three parts
mergeUpperThreeParts(out_lowerParts, upper) ==
    LET upperParts == partsOf(upper)
    IN  IF At(upperParts, 0) = AT
        THEN IF Len(upperParts) > 4
             THEN Err(ErrRootedUpper)
             ELSE Ok(upperParts)
        ELSE IF Len(upperParts) > 3
             THEN Err(ErrRelativeUpper)
             ELSE Ok(overlay(out_lowerParts, upperParts, 0))

\* the `if (upper) { ... }` block and the final return, for a truthy upper
mergeUpper(out_lowerParts, upper) ==
    LET upperParts == partsOf(upper)
    IN  IF At(upperParts, 0) = AT
        THEN IF Len(upperParts) > 4
             THEN Err(ErrRootedUpper)
             ELSE Ok(upperParts)
        ELSE IF Len(upperParts) > 2
             THEN Err(ErrRelativeUpper)
             ELSE Ok(overlay(out_lowerParts, upperParts, 0))

\* private static getSerialization(uri: string, base?: string): Result<string[], string>
\* (u and b are strings, or undefined when parse passes a failed okValue())
getSerialization(u, b) ==
    LET lower == lowerOf(u, b)
        upper == upperOf(u, b)
    IN  IF lower = undefined \/ lower = null
        THEN Throw(TypeError)          \* lower.split on a non-string
        ELSE LET out_lowerParts == partsOf(lower)
             IN  IF Len(out_lowerParts) > 4
                 THEN Err(ErrLowerCount)
                 ELSE IF At(out_lowerParts, 0) # AT
                      THEN Err(ErrBadProtocol)
                      ELSE IF Truthy(upper)
                           THEN mergeUpper(out_lowerParts, upper)
                           ELSE Ok(out_lowerParts)

\* the constructor without its second check
constructorUncheckedRkey(authority, collection, rk) ==
    IF ~Truthy(authority) /\ Truthy(collection)
    THEN Throw(ErrNoAuthorityForCollection)
    ELSE Ok(AtURI(authority, Nullish(collection, <<>>), Nullish(rk, <<>>)))

\* constructor(authority: string, collection?: string, rkey?: string)
constructor(authority, collection, rk) ==
    IF ~Truthy(authority) /\ Truthy(collection)
    THEN Throw(ErrNoAuthorityForCollection)
    ELSE IF ~Truthy(collection) /\ Truthy(rk)
         THEN Throw(ErrNoCollectionForRkey)
         ELSE Ok(AtURI(authority, Nullish(collection, <<>>), Nullish(rk, <<>>)))

\* toString(): Result<string, string>
toString(this) ==
    IF ~Truthy(this.authority)
    THEN Err(ErrNoAuthority)
    ELSE IF ~Truthy(this.collection)
         THEN Ok(join(<<AT_PREFIX, this.authority>>))
         ELSE IF Truthy(this.rkey)
              THEN Ok(join(<<AT_PREFIX, this.authority, <<SLASH>>, this.collection,
                             <<SLASH>>, this.rkey>>))
              ELSE Ok(join(<<AT_PREFIX, this.authority, <<SLASH>>, this.collection>>))

(* Arguments of parse: a string, an AtURI object (a Stringifiable), or, for  *)
(* base, nothing.  The tag is what `typeof` and `base?.` look at.           *)
Str(s) == [type |-> "string", value |-> s]
Obj(o) == [type |-> "object", value |-> o]
Absent == [type |-> "undefined"]

\* uri.toString() / base?.toString() followed by
\* typeof xs == "string" ? xs : xs.okValue()
coerce(x) ==
    IF x.type = "undefined" THEN undefined
    ELSE IF x.type = "string" THEN x.value
    ELSE okValue(toString(x.value))

\* Result.from(() => new AtURI(...)).mapErr((e) => e.message)
fromConstructor(r) == IF r.kind = "Throw" THEN Err(r.error) ELSE r

\* static parse(uri, base?): Result<AtURI, string>
parse(u, b) ==
    LET parts == getSerialization(coerce(u), coerce(b))
    IN  IF parts.kind = "Throw" THEN parts
        ELSE IF parts.kind = "Err" THEN Err(parts.error)
        ELSE fromConstructor(constructor(At(parts.value, 1), At(parts.value, 2),
                                         At(parts.value, 3)))

\* static canParse(uri, base?): boolean
canParse(u, b) ==
    LET r == parse(u, b)
    IN  IF r.kind = "Throw" THEN r ELSE Ok(r.kind = "Ok")

---------------------------------------------------------------------------
(* validateRecordKey *)

Upper == {"A", "B", "C", "D", "E", "F", "G", "H", "I", "J", "K", "L", "M",
          "N", "O", "P", "Q", "R", "S", "T", "U", "V", "W", "X", "Y", "Z"}
Lower == {"a", "b", "c", "d", "e", "f", "g", "h", "i", "j", "k", "l", "m",
          "n", "o", "p", "q", "r", "s", "t", "u", "v", "w", "x", "y", "z"}
Digit == {"0", "1", "2", "3", "4", "5", "6", "7", "8", "9"}

\* the character class [A-Za-z0-9.\-_:~]
rkeyClass == Upper \cup Lower \cup Digit \cup {".", "-", "_", ":", "~"}

\* the quantifier {1,512}
rkeyMin == 1
rkeyMax == 512

\* rkeyExpression without the closing $: a prefix of the class is enough
rkeyExpressionOpenEnded(s) ==
    \E n \in rkeyMin..rkeyMax :
        /\ n <= Len(s)
        /\ \A i \in 1..n : s[i] \in rkeyClass

\* const rkeyExpression = /^([A-Za-z0-9.\-_:~]{1,512})$/ : whether s matches.
\* The group takes n characters of the class from the start, and $ (no m
\* flag) then wants the end of the input.
rkeyExpression(s) ==
    \E n \in rkeyMin..rkeyMax :
        /\ n <= Len(s)
        /\ \A i \in 1..n : s[i] \in rkeyClass
        /\ n = Len(s)

\* export function validateRecordKey(rkey: string): string | null
\* (matched[0] is the whole match, and the match is anchored at both ends)
validateRecordKey(rk) == IF ~rkeyExpression(rk) THEN null ELSE rk

---------------------------------------------------------------------------
(* Bounds of the inputs *)

MaxSegs == 5         \* segments of one string given to parse
MaxTotalSegs == 6    \* segments of reference and base together
MaxFieldLen == 2     \* characters of a constructor argument
MaxKeyLen == 2       \* characters of a short record key
MaxOver == 2         \* how far around rkeyMax the long record keys go

\* all sequences over S of length at most n
SeqsUpTo(S, n) == UNION {[1..k -> S] : k \in 0..n}

\* n times the character c
Repeat(c, n) == [i \in 1..n |-> c]

---------------------------------------------------------------------------
(* Inputs of AtURI.parse *)

Segments == {AT, <<"x">>, <<"y">>}

\* the segments l written as a reference: "//" after a leading scheme-like
\* segment, "/" between the others, and with pad a slash before and after
RECURSIVE joinSlash(_)
joinSlash(l) ==
    IF l = <<>> THEN <<>>
    ELSE IF Len(l) = 1 THEN l[1]
    ELSE l[1] \o <<SLASH>> \o joinSlash(Tail(l))

render(l, pad) ==
    LET body == IF l = <<>> THEN <<>>
                ELSE IF l[1][Len(l[1])] = ":"
                     THEN l[1] \o <<SLASH, SLASH>> \o joinSlash(Tail(l))
                     ELSE joinSlash(l)
    IN  IF pad THEN <<SLASH>> \o body \o <<SLASH>> ELSE body

\* the strings of exactly n segments
StringsOf(n) == {render(l, pad) : l \in [1..n -> Segments], pad \in BOOLEAN}

\* AtURI objects a caller can hold: what the constructor accepts
FieldValues == {<<>>, <<"x">>, <<"y">>}
Objects ==
    {constructor(a, c, r).value :
        <<a, c, r>> \in {t \in FieldValues \X FieldValues \X FieldValues :
                            constructor(t[1], t[2], t[3]).kind = "Ok"}}

\* the segments an object stands for: the scheme and its non-empty fields
objectSegs(o) ==
    1 + (IF Truthy(o.authority) THEN 1 ELSE 0)
      + (IF Truthy(o.collection) THEN 1 ELSE 0)
      + (IF Truthy(o.rkey) THEN 1 ELSE 0)

---------------------------------------------------------------------------
(* Inputs of the constructor and of validateRecordKey *)

FieldAlphabet == {"x", "y", "/"}
FieldStrings == SeqsUpTo(FieldAlphabet, MaxFieldLen)
\* (authority: string, collection?: string, rkey?: string)
ConstructorArgs ==
    FieldStrings \X (FieldStrings \cup {undefined}) \X (FieldStrings \cup {undefined})

\* the invalid keys of test/rkey.test.ts, "rkey: invalid: multiple"
TestKeys ==
    { <<"a", "l", "p", "h", "a", "/", "b", "e", "t", "a">>,
      <<".">>,
      <<".", ".">>,
      <<"#", "e", "x", "t", "r", "a">>,
      <<"@", "h", "a", "n", "d", "l", "e">>,
      <<"a", "n", "y", " ", "s", "p", "a", "c", "e">>,
      <<"a", "n", "y", "+", "s", "p", "a", "c", "e">>,
      <<"n", "u", "m", "b", "e", "r", "[", "3", "]">>,
      <<"n", "u", "m", "b", "e", "r", "(", "3", ")">>,
      <<"\"", "q", "u", "o", "t", "e", "\"">>,
      <<"d", "H", "J", "1", "Z", "Q", "=", "=">> }

KeyAlphabet == {"a", "Z", "0", ".", "-", "_", ":", "~", "/", "#", "@", " ",
                "+", "[", "]", "(", ")", "\"", "=", "\n"}
LongLengths == {n \in (rkeyMax - MaxOver)..(rkeyMax + MaxOver) : n >= 1}
RecordKeys ==
    SeqsUpTo(KeyAlphabet, MaxKeyLen)
        \cup TestKeys
        \cup {Repeat("a", n) : n \in LongLengths}
        \cup {Repeat("a", n - 1) \o <<c>> : n \in LongLengths, c \in {"/", "~"}}

---------------------------------------------------------------------------
(* The caller.  It makes one of three uses of the library:                  *)
(*   - it calls AtURI.parse or AtURI.canParse on a reference and a base;    *)
(*   - it constructs an AtURI with new;                                     *)
(*   - it validates a record key.                                           *)
(* A value it got from parse (tval.okValue(), as in test/rkey.test.ts) or   *)
(* from new is then projected with softRef(), or serialized with toString() *)
(* and the string parsed back.                                              *)

\* what the variables of a use hold while the caller makes another one
IdleParse == uri = Str(<<>>) /\ base = Absent /\ ret = None /\ can = None
IdleValue ==
    /\ args = <<undefined, undefined, undefined>>
    /\ self = None /\ ref = None /\ str = None
IdleKey == rkey = <<>> /\ matched = undefined

\* the argument pairs: two strings, a string alone, or an object on either side
InitArguments ==
    \/ \E n \in 0..MaxSegs, m \in 0..MaxSegs :
          /\ n + m <= MaxTotalSegs
          /\ \E u \in StringsOf(n), b \in StringsOf(m) : uri = Str(u) /\ base = Str(b)
    \/ \E n \in 0..MaxSegs :
          \E u \in StringsOf(n) : uri = Str(u) /\ base = Absent
    \/ \E o \in Objects :
          \/ uri = Obj(o) /\ base = Absent
          \/ \E q \in Objects : uri = Obj(o) /\ base = Obj(q)
          \/ \E m \in 0..MaxSegs :
                /\ objectSegs(o) + m <= MaxTotalSegs
                /\ \E b \in StringsOf(m) : uri = Obj(o) /\ base = Str(b)
          \/ \E n \in 0..MaxSegs :
                /\ n + objectSegs(o) <= MaxTotalSegs
                /\ \E u \in StringsOf(n) : uri = Str(u) /\ base = Obj(o)

InitParse ==
    /\ pc = "call"
    /\ InitArguments
    /\ ret = None /\ can = None
    /\ IdleValue /\ IdleKey

InitValue ==
    /\ pc = "new"
    /\ args \in ConstructorArgs
    /\ self = None /\ ref = None /\ str = None
    /\ IdleParse /\ IdleKey

InitKey ==
    /\ pc = "key"
    /\ rkey \in RecordKeys
    /\ matched = undefined
    /\ IdleParse /\ IdleValue

Init == InitParse \/ InitValue \/ InitKey

\* AtURI.parse(uri, base)
Parse ==
    /\ pc = "call"
    /\ ret' = parse(uri, base)
    /\ pc' = "parsed"
    /\ UNCHANGED <<uri, base, can, args, self, str, ref, rkey, matched>>

\* AtURI.canParse(uri, base)
CanParse ==
    /\ pc = "call"
    /\ can' = canParse(uri, base)
    /\ pc' = "checked"
    /\ UNCHANGED <<uri, base, ret, args, self, str, ref, rkey, matched>>

\* tval.okValue() of a successful parse: the caller now holds the value
OkValue ==
    /\ pc = "parsed"
    /\ ret.kind = "Ok"
    /\ self' = Ok(okValue(ret))
    /\ pc' = "unwrapped"
    /\ UNCHANGED <<uri, base, ret, can, args, str, ref, rkey, matched>>

\* new AtURI(authority, collection, rkey)
New ==
    /\ pc = "new"
    /\ self' = constructor(args[1], args[2], args[3])
    /\ pc' = "constructed"
    /\ UNCHANGED <<uri, base, ret, can, args, str, ref, rkey, matched>>

\* the caller holds a value
Holding == pc \in {"constructed", "unwrapped"} /\ self.kind = "Ok"

\* self.softRef()
SoftRef ==
    /\ Holding
    /\ ref' = Ok(softRef(self.value))
    /\ pc' = "projected"
    /\ UNCHANGED <<uri, base, ret, can, args, self, str, rkey, matched>>

\* self.toString()
Serialize ==
    /\ Holding
    /\ str' = toString(self.value)
    /\ pc' = "serialized"
    /\ UNCHANGED <<uri, base, ret, can, args, self, ref, rkey, matched>>

\* AtURI.parse(s) of the string s that toString() returned
Reparse ==
    /\ pc = "serialized"
    /\ str.kind = "Ok"
    /\ uri' = Str(okValue(str))
    /\ base' = Absent
    /\ ret' = parse(uri', base')
    /\ pc' = "reparsed"
    /\ UNCHANGED <<can, args, self, str, ref, rkey, matched>>

\* validateRecordKey(rkey)
Validate ==
    /\ pc = "key"
    /\ matched' = validateRecordKey(rkey)
    /\ pc' = "validated"
    /\ UNCHANGED <<uri, base, ret, can, args, self, str, ref, rkey>>

Next ==
    \/ Parse \/ CanParse \/ OkValue
    \/ New \/ SoftRef \/ Serialize \/ Reparse
    \/ Validate

Spec == Init /\ [][Next]_vars

---------------------------------------------------------------------------
(* Vocabulary of the claims *)

\* the '/'-segments of a string, empty ones dropped
SegmentsOf(s) == SelectSeq(split(s, SLASH), LAMBDA x : x # <<>>)

\* a rooted reference: its first segment is the scheme token at:
Rooted(s) == Len(SegmentsOf(s)) >= 1 /\ SegmentsOf(s)[1] = AT

\* x is given and has a string form: a string, or an object that serializes
HasString(x) == x.type # "undefined" /\ coerce(x) # undefined

\* x is an object whose toString() fails
FailsToString(x) == x.type = "object" /\ toString(x.value).kind = "Err"

\* the constructor's two checks, as properties of a value
WellFormed(v) ==
    /\ Truthy(v.collection) => Truthy(v.authority)
    /\ Truthy(v.rkey) => Truthy(v.collection)

---------------------------------------------------------------------------
(* C1 *)

\* C1 (as claimed): every value v the constructor accepts with a non-empty
\* authority serializes, and parsing its string form succeeds and gives
\* back the authority, collection and rkey of v.
C1_RoundTrip ==
    /\ (pc = "serialized" /\ Truthy(self.value.authority)) => str.kind = "Ok"
    /\ pc = "reparsed" =>
          /\ ret.kind = "Ok"
          /\ ret.value.authority = self.value.authority
          /\ ret.value.collection = self.value.collection
          /\ ret.value.rkey = self.value.rkey

---------------------------------------------------------------------------
(* C2 *)

\* the case of C2: parse was called with a string reference that is rooted
\* and has at most 4 segments, and with a string base
C2_Case ==
    /\ pc = "parsed"
    /\ uri.type = "string" /\ base.type = "string"
    /\ Rooted(uri.value) /\ Len(SegmentsOf(uri.value)) <= 4

\* C2 (as claimed): with a rooted reference of at most 4 segments, the
\* outcome of parse(reference, base) is that of parse(reference), whatever
\* string the base is.
C2_BaseIgnored == C2_Case => ret = parse(uri, Absent)

\* C2 (amended): with a rooted reference of at most 4 segments, the outcome
\* of parse(reference, base) is that of parse(reference) for every base
\* string that is itself rooted with at most 4 segments; with any other
\* base string parse fails, with the base's arity or scheme error.
C2_RootedBaseIgnored ==
    C2_Case =>
        IF Rooted(base.value) /\ Len(SegmentsOf(base.value)) <= 4
        THEN ret = parse(uri, Absent)
        ELSE ret.kind = "Err" /\ ret.error \in {ErrLowerCount, ErrBadProtocol}

\* a rooted two-segment reference against a rooted four-segment base of
\* another authority: the result has the reference's authority and nothing
\* of the base
C2_Witness ==
    /\ C2_Case
    /\ Rooted(base.value)
    /\ Len(SegmentsOf(base.value)) = 4
    /\ Len(SegmentsOf(uri.value)) = 2
    /\ SegmentsOf(uri.value)[2] # SegmentsOf(base.value)[2]
    /\ ret.kind = "Ok"
    /\ ret.value = AtURI(SegmentsOf(uri.value)[2], <<>>, <<>>)

---------------------------------------------------------------------------
(* C3 *)

\* the case of C3: parse was called with a base whose string form is rooted,
\* has at most 4 segments and an authority, and with a non-empty string
\* reference that is not rooted and has 1 or 2 segments
C3_Case ==
    /\ pc = "parsed"
    /\ HasString(base)
    /\ Rooted(coerce(base))
    /\ Len(SegmentsOf(coerce(base))) \in 2..4
    /\ uri.type = "string"
    /\ ~Rooted(uri.value)
    /\ Len(SegmentsOf(uri.value)) \in 1..2

\* C3: in that case parse succeeds; the authority is the base's, the
\* collection is the reference's first segment, and the rkey is the
\* reference's second segment if it has one and else the base's rkey
\* segment, empty if the base has none.
C3_RelativeMerge ==
    C3_Case =>
        LET b == SegmentsOf(coerce(base))
            u == SegmentsOf(uri.value)
        IN  /\ ret.kind = "Ok"
            /\ ret.value.authority = b[2]
            /\ ret.value.collection = u[1]
            /\ ret.value.rkey = IF Len(u) = 2 THEN u[2]
                                ELSE IF Len(b) = 4 THEN b[4] ELSE <<>>

\* a one-segment reference against a base with collection and rkey: the
\* collection is replaced and the base's rkey stays
C3_Witness ==
    /\ C3_Case
    /\ Len(SegmentsOf(uri.value)) = 1
    /\ Len(SegmentsOf(coerce(base))) = 4
    /\ SegmentsOf(uri.value)[1] # SegmentsOf(coerce(base))[3]
    /\ ret.kind = "Ok"
    /\ ret.value.collection = SegmentsOf(uri.value)[1]
    /\ ret.value.rkey = SegmentsOf(coerce(base))[4]

---------------------------------------------------------------------------
(* C4 *)

\* the merge of parse left a collection and no authority: the base is the
\* scheme token alone and the reference is relative
C4_AbsentAuthority ==
    /\ pc = "parsed"
    /\ HasString(base) /\ SegmentsOf(coerce(base)) = <<AT>>
    /\ uri.type = "string" /\ ~Rooted(uri.value)
    /\ Len(SegmentsOf(uri.value)) \in 1..2

\* C4: new AtURI fails when given a non-empty collection with an empty or
\* absent authority, and when given a non-empty rkey with an empty or absent
\* collection; every value that new or a successful parse returns has
\* (collection non-empty => authority non-empty) and (rkey non-empty =>
\* collection non-empty), and its collection and rkey are strings, the empty
\* string when absent.
C4_ConstructionInvariant ==
    /\ C4_AbsentAuthority => ret = Err(ErrNoAuthorityForCollection)
    /\ pc = "constructed" =>
          /\ (~Truthy(args[1]) /\ Truthy(args[2])) => self.kind = "Throw"
          /\ (~Truthy(args[2]) /\ Truthy(args[3])) => self.kind = "Throw"
          /\ self.kind = "Ok" =>
                /\ WellFormed(self.value)
                /\ self.value.collection = Nullish(args[2], <<>>)
                /\ self.value.rkey = Nullish(args[3], <<>>)
    /\ ret.kind = "Ok" =>
          /\ WellFormed(ret.value)
          /\ ret.value.collection \notin {undefined, null}
          /\ ret.value.rkey \notin {undefined, null}

\* new with an authority, an rkey and no collection throws
C4_WitnessRkey ==
    /\ pc = "constructed"
    /\ Truthy(args[1]) /\ ~Truthy(args[2]) /\ Truthy(args[3])
    /\ self = Throw(ErrNoCollectionForRkey)

---------------------------------------------------------------------------
(* C5, C6 *)

\* the characters the record-key grammar names
GrammarChars ==
    Upper \cup Lower \cup Digit \cup {".", "-", "_", "~", ":"}

\* s follows the grammar: 1 to 512 characters, all of them grammar characters
InGrammar(s) ==
    /\ Len(s) >= 1
    /\ Len(s) <= 512
    /\ \A i \in 1..Len(s) : s[i] \in GrammarChars

C6_Forbidden == {"/", "#", "@", " ", "\n", "+", "[", "]", "(", ")", "\"", "="}

\* C6 (as claimed): validateRecordKey returns null for ".", for "..", for
\* the empty string and for every string with a forbidden character.
C6_RejectsDots ==
    (/\ pc = "validated"
     /\ \/ rkey \in {<<".">>, <<".", ".">>, <<>>}
        \/ \E i \in 1..Len(rkey) : rkey[i] \in C6_Forbidden)
    => matched = null

---------------------------------------------------------------------------
(* C7 *)

\* parse failed with one of the three arity errors
ArityError ==
    ret.kind = "Err" /\ ret.error \in {ErrLowerCount, ErrRootedUpper, ErrRelativeUpper}

\* the reference is a string, rooted, with more than 4 segments
C7_LongRooted(x) ==
    HasString(x) /\ Rooted(coerce(x)) /\ Len(SegmentsOf(coerce(x))) > 4

\* the reference is a string, not rooted, with more than 2 segments
C7_LongRelative(x) ==
    HasString(x) /\ ~Rooted(coerce(x)) /\ Len(SegmentsOf(coerce(x))) > 2

\* C7 (as claimed): parse fails with an arity error for a rooted string of
\* more than 4 segments, be it the single string, the base, or the reference
\* given with a base, and for a non-rooted reference of more than 2 segments
\* given with a base.
C7_ArityRejection ==
    pc = "parsed" =>
        /\ (base.type = "undefined" /\ C7_LongRooted(uri)) => ArityError
        /\ C7_LongRooted(base) => ArityError
        /\ (HasString(base) /\ C7_LongRooted(uri)) => ArityError
        /\ (HasString(base) /\ C7_LongRelative(uri)) => ArityError

\* C7 (amended): as claimed for the single string and for the base; a
\* reference given with a base fails with an arity error when the base is
\* rooted, and fails with the scheme error when the base is not rooted and
\* has at most 4 segments.
C7_ArityRejectionRootedBase ==
    pc = "parsed" =>
        /\ (base.type = "undefined" /\ C7_LongRooted(uri)) => ArityError
        /\ C7_LongRooted(base) => ArityError
        /\ (HasString(base) /\ (C7_LongRooted(uri) \/ C7_LongRelative(uri))) =>
              IF Rooted(coerce(base)) \/ Len(SegmentsOf(coerce(base))) > 4
              THEN ArityError
              ELSE ret = Err(ErrBadProtocol)

\* a non-rooted reference of three segments against a rooted base is
\* refused for its length
C7_Witness ==
    /\ pc = "parsed"
    /\ HasString(base) /\ Rooted(coerce(base))
    /\ Len(SegmentsOf(coerce(base))) <= 4
    /\ C7_LongRelative(uri)
    /\ Len(SegmentsOf(coerce(uri))) = 3
    /\ ret = Err(ErrRelativeUpper)

---------------------------------------------------------------------------
(* C8 *)

\* the case of C8: parse was called and the lower string, which is the base
\* if one is given and the reference otherwise, is not rooted
C8_Case ==
    /\ pc = "parsed"
    /\ \/ HasString(base) /\ ~Rooted(coerce(base))
       \/ base.type = "undefined" /\ HasString(uri) /\ ~Rooted(coerce(uri))

\* the lower string of C8
C8_Lower == IF base.type = "undefined" THEN coerce(uri) ELSE coerce(base)

\* C8 (as claimed): whenever the lower string is not rooted, the empty
\* string included, parse fails with the scheme error.
C8_SchemeRejection == C8_Case => ret = Err(ErrBadProtocol)

\* C8 (amended): whenever the lower string is not rooted, parse fails: with
\* the scheme error if the lower string has at most 4 segments, and with
\* the lower arity error if it has more.
C8_SchemeRejectionUpTo4 ==
    C8_Case =>
        IF Len(SegmentsOf(C8_Lower)) <= 4
        THEN ret = Err(ErrBadProtocol)
        ELSE ret = Err(ErrLowerCount)

\* an empty base makes a rooted reference fail with the scheme error
C8_Witness ==
    /\ C8_Case
    /\ base = Str(<<>>)
    /\ HasString(uri) /\ Rooted(coerce(uri))
    /\ Len(SegmentsOf(coerce(uri))) \in 2..4
    /\ ret = Err(ErrBadProtocol)

---------------------------------------------------------------------------
(* C9 *)

\* C9 (as claimed): parse never raises; when the reference or the base is
\* an object whose toString() fails, parse returns a failure.
C9_FailurePropagation ==
    pc = "parsed" =>
        /\ ret.kind # "Throw"
        /\ (FailsToString(uri) \/ FailsToString(base)) => ret.kind = "Err"

---------------------------------------------------------------------------
(* C10 *)

\* C10 (as claimed): softRef() returns repo, collection and rkey equal to
\* the value's authority, collection and rkey, and leaves the value as it
\* was.
C10_SoftRefProjection ==
    [][SoftRef =>
          /\ ref'.value.repo = self.value.authority
          /\ ref'.value.collection = self.value.collection
          /\ ref'.value.rkey = self.value.rkey
          /\ self' = self]_vars

---------------------------------------------------------------------------
(* C11 *)

\* C11 (as claimed): every value a successful parse returns, which is every
\* input for which canParse is true, has a non-empty authority; toString()
\* of such a value succeeds; and a reference that is the scheme token alone,
\* such as "at://", is not accepted.
C11_ParsedHasAuthority ==
    /\ (pc = "parsed" /\ ret.kind = "Ok") => Truthy(ret.value.authority)
    /\ (pc = "checked" /\ can.kind = "Ok" /\ can.value) =>
          Truthy(parse(uri, base).value.authority)
    /\ (pc = "serialized" /\ ret.kind = "Ok") => str.kind = "Ok"
    /\ (pc = "parsed" /\ base.type = "undefined" /\ uri.type = "string"
           /\ SegmentsOf(uri.value) = <<AT>>) => ret.kind = "Err"

====
